---- MODULE Spec2Model ----
(***************************************************************************)
(* State-machine model of the nums hit counter (advayc/nums).              *)
(*                                                                         *)
(*   SpecMC   the in-process per-id counter of the standalone server       *)
(*            (MultiCounter.Inc / MultiCounter.Get) under concurrent       *)
(*            callers, one step per source line that touches shared state. *)
(*   SpecApi  the serverless handler api.Handler: lazy Redis               *)
(*            initialisation (sync.Once), /hit and /count with the Redis   *)
(*            call and the in-memory fallback globalCount, under           *)
(*            concurrent requests.                                         *)
(*   SpecApiSeq  the same handler when each request is sent after the      *)
(*            previous response was received.                              *)
(*   SpecColor  normalizeColor applied to one pair of arguments.           *)
(*   SpecBadge  api.Handler with /count.txt, /badge and /badge.json next   *)
(*            to /hit and /count, requests sent one after another.         *)
(*   SpecSrv  the standalone server's handlers over singleCounter, the     *)
(*            MultiCounter and the persistence file, under concurrent      *)
(*            requests.                                                    *)
(*   SpecApiLive  api.Handler under concurrent requests in front of a      *)
(*            Redis server that may stop answering, every handler          *)
(*            goroutine being scheduled fairly.                            *)
(*   SpecGate  the /hit endpoints of api.Handler and of the standalone     *)
(*            server side by side, with the requests they turn away.       *)
(*                                                                         *)
(* Text is modelled as the sequence of its characters.                     *)
(*                                                                         *)
(* Counters are uint64 in the source; no behaviour within the bounds comes *)
(* near 2^64, so they are plain naturals here.                             *)
(***************************************************************************)
EXTENDS Integers, Sequences, FiniteSets, TLC

(* ---------------------------------------------------------------------- *)
(* Bounds                                                                  *)
(* ---------------------------------------------------------------------- *)

\* number of goroutines calling into the MultiCounter concurrently
NProcMC == 2
\* total number of MultiCounter calls (Inc or Get) started in one behaviour
MaxCallsMC == 4

\* number of requests api.Handler serves concurrently
NProcApi == 2
\* total number of requests api.Handler receives in one behaviour
MaxReqApi == 2
\* number of requests sent one after another to api.Handler
MaxReqSeq == 4
\* total number of requests sent to api.Handler in front of a Redis server
\* that may stop answering
MaxReqLive == 2
\* total number of requests sent to the two deployments running side by side
MaxReqGate == 2
\* a non-zero INITIAL_HIT_COUNT
SeedVal == 2
\* a count already held by the durable store when the process starts
PreVal == 2

MCProcs == 1..NProcMC
ApiProcs == 1..NProcApi

\* identifiers a caller may pass; "" is the omitted identifier
IdIn == {"", "default", "a"}

(* ---------------------------------------------------------------------- *)
(* State                                                                   *)
(* ---------------------------------------------------------------------- *)

VARIABLES
    \* MultiCounter: m map[string]*uint64 as id -> cell address (0 = no entry),
    \* the uint64 cells themselves, and the RWMutex mu
    mcM, mcHeap, mcReaders, mcWriters,
    \* per goroutine: position, operation, id, ptr, ok
    mcPc, mcOp, mcId, mcPtr, mcOk,
    \* what the step just taken returned to a caller of Inc or Get (MCNoOut
    \* when it returned nothing)
    mcOut,
    \* history: calls started, Inc calls started / returned per id, cells
    \* allocated per id, Inc calls that saw "no entry" at line 42, whether two
    \* Inc calls on the id were ever in flight together, and what a Get saw
    \* of the Inc counts when it was called
    mcCalls, mcIncStarted, mcIncDone, mcCreated, mcSawAbsent, mcConc,
    mcSnapStarted, mcSnapDone

VARIABLES
    \* environment: REDIS_URL ("unset", "badurl", "good"), SECRET_TOKEN
    \* ("" when unset), INITIAL_HIT_COUNT (0 when unset or unparsable)
    envRedis, envSecret, envSeed,
    \* globalCount, redisOnce ("fresh", "running", "done"), redisClient # nil
    apGlobal, apOnce, apClient,
    \* the durable store: id -> value of key "hits:"+id, and its initial content
    apStore, apStore0,
    \* per request goroutine: position, path, id, newVal / val, and the
    \* outcome of its Redis call
    apPc, apPath, apId, apVal, apCall,
    \* history, per request: whether no operation on its id completed while it
    \* ran, and its part in a run of sequential home requests
    apClean, apRole,
    \* history: requests received, times the initializer body was entered, ids
    \* for which a /hit got past the checks, value and origin of the last
    \* completed operation per id, number of sequential home increments
    \* completed with nothing else received so far (-1 otherwise)
    apReqs, apInitRuns, apHitBegun, apLastVal, apLastOrigin, apScen,
    \* the response written by the step just taken (NoOut when none was)
    apOut

VARIABLES
    \* one call of normalizeColor: the arguments c and fallback, whether the
    \* call has returned, and what it returned
    ncC, ncFallback, ncDone, ncRes

ncVars == <<ncC, ncFallback, ncDone, ncRes>>

VARIABLES
    \* environment: REDIS_PREFIX ("" when unset), whether FAIL_FAST_REDIS is 1,
    \* INITIAL_HIT_COUNT as the standalone server reads it (0 when unset)
    envPrefix, envFailFast, svSeed,
    \* whether the Redis server has stopped answering
    envSilent

envVars == <<envPrefix, envFailFast, svSeed, envSilent>>

VARIABLES
    \* the standalone server: SECRET_TOKEN, whether PERSIST_FILE is set,
    \* singleCounter.count, the content of the persistence file and of its
    \* ".tmp" sibling
    svSecret, svPersist, svSingle, svFile, svTmp,
    \* per request goroutine: position and newVal
    svPc, svVal,
    \* history: requests received, the value singleCounter started with,
    \* increments of singleCounter performed, and per request the number of
    \* its own increment among them
    svReqs, svBase, svIncs, svNth,
    \* history: whether a call of os.WriteFile or os.Rename has failed
    svFault,
    \* the response written by the step just taken (SvNoOut when none was)
    svOut

svVars == <<svSecret, svPersist, svSingle, svFile, svTmp, svPc, svVal, svReqs,
            svBase, svIncs, svNth, svFault, svOut>>

\* the state outside the MultiCounter and the /hit and /count handlers
xtVars == <<ncVars, envVars, svVars>>

apVars == <<envRedis, envSecret, envSeed, apGlobal, apOnce, apClient, apStore,
            apStore0, apPc, apPath, apId, apVal, apCall, apClean, apRole,
            apReqs, apInitRuns, apHitBegun, apLastVal, apLastOrigin, apScen,
            apOut>>

mcVars == <<mcM, mcHeap, mcReaders, mcWriters, mcPc, mcOp, mcId, mcPtr, mcOk,
            mcOut, mcCalls, mcIncStarted, mcIncDone, mcCreated, mcSawAbsent,
            mcConc, mcSnapStarted, mcSnapDone>>

vars == <<mcVars, apVars, xtVars>>

(* ---------------------------------------------------------------------- *)
(* MultiCounter                                                            *)
(* ---------------------------------------------------------------------- *)

\* if id == "" { id = "default" }
MCNormId(id) == IF id = "" THEN "default" ELSE id

MCIds == {MCNormId(i) : i \in IdIn}

\* mu.RLock() proceeds when no writer holds the lock (Go also holds new
\* readers back while a writer waits; every behaviour of that lock is one of
\* this one)
MCCanRLock == mcWriters = {}

\* mutation: the creation section is not exclusive (Lock taken as a no-op)
MCCanLockNotExclusive == TRUE
\* mu.Lock() proceeds when neither a writer nor a reader holds the lock
MCCanLock == mcWriters = {} /\ mcReaders = {}

\* mutation: no re-check under the write lock, the entry is always created
MCEntryAlwaysAbsent(id) == TRUE
\* the re-check under the write lock: ptr, ok = mc.m[id]; !ok
MCEntryAbsent(id) == mcM[id] = 0

\* what MultiCounter.Get computes from the current map and cell
MCGetValue(id) == IF mcM[id] = 0 THEN 0 ELSE mcHeap[mcM[id]]

\* nothing was returned by the step just taken
MCNoOut == [op |-> "none", id |-> "default", ret |-> 0, snapStarted |-> 0,
            snapDone |-> 0]

MCInFlightInc(id) == {q \in MCProcs : mcOp[q] = "inc" /\ mcId[q] = id}

MCInit ==
    /\ mcM = [i \in MCIds |-> 0]
    /\ mcHeap = <<>>
    /\ mcReaders = {}
    /\ mcWriters = {}
    /\ mcPc = [p \in MCProcs |-> "idle"]
    /\ mcOp = [p \in MCProcs |-> "none"]
    /\ mcId = [p \in MCProcs |-> "default"]
    /\ mcPtr = [p \in MCProcs |-> 0]
    /\ mcOk = [p \in MCProcs |-> FALSE]
    /\ mcOut = MCNoOut
    /\ mcCalls = 0
    /\ mcIncStarted = [i \in MCIds |-> 0]
    /\ mcIncDone = [i \in MCIds |-> 0]
    /\ mcCreated = [i \in MCIds |-> 0]
    /\ mcSawAbsent = [i \in MCIds |-> 0]
    /\ mcConc = [i \in MCIds |-> FALSE]
    /\ mcSnapStarted = [p \in MCProcs |-> 0]
    /\ mcSnapDone = [p \in MCProcs |-> 0]

\* a goroutine calls mc.Inc(id): lines 37-40
MCIncCall(p) ==
    \E idin \in IdIn :
        /\ mcPc[p] = "idle"
        /\ mcCalls < MaxCallsMC
        /\ mcCalls' = mcCalls + 1
        /\ mcOp' = [mcOp EXCEPT ![p] = "inc"]
        /\ mcId' = [mcId EXCEPT ![p] = MCNormId(idin)]
        /\ mcPc' = [mcPc EXCEPT ![p] = "rlock"]
        /\ mcIncStarted' = [mcIncStarted EXCEPT ![MCNormId(idin)] = @ + 1]
        /\ mcConc' = [mcConc EXCEPT ![MCNormId(idin)] =
                          @ \/ MCInFlightInc(MCNormId(idin)) # {}]
        /\ mcOut' = MCNoOut
        /\ UNCHANGED <<xtVars, apVars, mcM, mcHeap, mcReaders, mcWriters, mcPtr, mcOk, mcIncDone, mcCreated, mcSawAbsent, mcSnapStarted,
                       mcSnapDone>>

\* a goroutine calls mc.Get(id): lines 56-59
MCGetCall(p) ==
    \E idin \in IdIn :
        /\ mcPc[p] = "idle"
        /\ mcCalls < MaxCallsMC
        /\ mcCalls' = mcCalls + 1
        /\ mcOp' = [mcOp EXCEPT ![p] = "get"]
        /\ mcId' = [mcId EXCEPT ![p] = MCNormId(idin)]
        /\ mcPc' = [mcPc EXCEPT ![p] = "rlock"]
        /\ mcSnapStarted' = [mcSnapStarted EXCEPT ![p] = mcIncStarted[MCNormId(idin)]]
        /\ mcSnapDone' = [mcSnapDone EXCEPT ![p] = mcIncDone[MCNormId(idin)]]
        /\ mcOut' = MCNoOut
        /\ UNCHANGED <<xtVars, apVars, mcM, mcHeap, mcReaders, mcWriters, mcPtr, mcOk, mcIncStarted, mcIncDone, mcCreated, mcSawAbsent, mcConc>>

\* mc.mu.RLock(); ptr, ok := mc.m[id] (lines 41-42, 60-61): no writer holds
\* the lock from the RLock to the lookup, so the map cannot change between
\* them and the two are one step
MCRLock(p) ==
    /\ mcPc[p] = "rlock"
    /\ MCCanRLock
    /\ mcReaders' = mcReaders \cup {p}
    /\ mcPtr' = [mcPtr EXCEPT ![p] = mcM[mcId[p]]]
    /\ mcOk' = [mcOk EXCEPT ![p] = mcM[mcId[p]] # 0]
    /\ mcPc' = [mcPc EXCEPT ![p] = "runlock"]
    /\ mcOut' = MCNoOut
    /\ UNCHANGED <<xtVars, apVars, mcM, mcHeap, mcWriters, mcOp, mcId, mcCalls,
                   mcIncStarted, mcIncDone, mcCreated, mcSawAbsent, mcConc,
                   mcSnapStarted, mcSnapDone>>

\* mc.mu.RUnlock() and the branch after it: lines 43-44 and 62
MCRUnlock(p) ==
    /\ mcPc[p] = "runlock"
    /\ mcReaders' = mcReaders \ {p}
    /\ mcPc' = [mcPc EXCEPT ![p] =
                   IF mcOp[p] = "get" THEN "load"
                   ELSE IF mcOk[p] THEN "add" ELSE "lock"]
    /\ mcSawAbsent' = IF mcOp[p] = "inc" /\ ~mcOk[p]
                      THEN [mcSawAbsent EXCEPT ![mcId[p]] = @ + 1]
                      ELSE mcSawAbsent
    /\ mcOut' = MCNoOut
    /\ UNCHANGED <<xtVars, apVars, mcM, mcHeap, mcWriters, mcOp, mcId, mcPtr, mcOk, mcCalls, mcIncStarted, mcIncDone, mcCreated, mcConc,
                   mcSnapStarted, mcSnapDone>>

\* mc.mu.Lock(): line 45
MCLock(p) ==
    /\ mcPc[p] = "lock"
    /\ MCCanLock
    /\ mcWriters' = mcWriters \cup {p}
    /\ mcPc' = [mcPc EXCEPT ![p] = "recheck"]
    /\ mcOut' = MCNoOut
    /\ UNCHANGED <<xtVars, apVars, mcM, mcHeap, mcReaders, mcOp, mcId, mcPtr, mcOk, mcCalls, mcIncStarted, mcIncDone, mcCreated, mcSawAbsent,
                   mcConc, mcSnapStarted, mcSnapDone>>

\* if ptr, ok = mc.m[id]; !ok: line 46
MCRecheck(p) ==
    /\ mcPc[p] = "recheck"
    /\ IF MCEntryAbsent(mcId[p])
       THEN /\ mcPc' = [mcPc EXCEPT ![p] = "create"]
            /\ UNCHANGED <<mcPtr, mcOk>>
       ELSE /\ mcPc' = [mcPc EXCEPT ![p] = "unlock"]
            /\ mcPtr' = [mcPtr EXCEPT ![p] = mcM[mcId[p]]]
            /\ mcOk' = [mcOk EXCEPT ![p] = TRUE]
    /\ mcOut' = MCNoOut
    /\ UNCHANGED <<xtVars, apVars, mcM, mcHeap, mcReaders, mcWriters, mcOp, mcId, mcCalls, mcIncStarted, mcIncDone, mcCreated, mcSawAbsent,
                   mcConc, mcSnapStarted, mcSnapDone>>

\* var v uint64; ptr = &v; mc.m[id] = ptr: lines 47-49
MCCreate(p) ==
    /\ mcPc[p] = "create"
    /\ mcHeap' = Append(mcHeap, 0)
    /\ mcPtr' = [mcPtr EXCEPT ![p] = Len(mcHeap) + 1]
    /\ mcM' = [mcM EXCEPT ![mcId[p]] = Len(mcHeap) + 1]
    /\ mcCreated' = [mcCreated EXCEPT ![mcId[p]] = @ + 1]
    /\ mcPc' = [mcPc EXCEPT ![p] = "unlock"]
    /\ mcOut' = MCNoOut
    /\ UNCHANGED <<xtVars, apVars, mcReaders, mcWriters, mcOp, mcId, mcOk, mcCalls,
                   mcIncStarted, mcIncDone, mcSawAbsent, mcConc,
                   mcSnapStarted, mcSnapDone>>

\* mc.mu.Unlock(): line 51
MCUnlock(p) ==
    /\ mcPc[p] = "unlock"
    /\ mcWriters' = mcWriters \ {p}
    /\ mcPc' = [mcPc EXCEPT ![p] = "add"]
    /\ mcOut' = MCNoOut
    /\ UNCHANGED <<xtVars, apVars, mcM, mcHeap, mcReaders, mcOp, mcId, mcPtr, mcOk, mcCalls, mcIncStarted, mcIncDone, mcCreated, mcSawAbsent,
                   mcConc, mcSnapStarted, mcSnapDone>>

\* mutation: Inc returns the value before the addition
MCAddResultOld(v) == v
\* atomic.AddUint64 returns the new value
MCAddResult(v) == v + 1

\* mutation: Get answers with the value an increment in flight will leave
MCLoadedAhead(ptr) == IF ptr = 0 THEN 0 ELSE mcHeap[ptr] + 1
\* if ptr == nil { return 0 }; return atomic.LoadUint64(ptr)
MCLoaded(ptr) == IF ptr = 0 THEN 0 ELSE mcHeap[ptr]

\* return atomic.AddUint64(ptr, 1): line 53
MCAdd(p) ==
    /\ mcPc[p] = "add"
    /\ mcHeap' = [mcHeap EXCEPT ![mcPtr[p]] = @ + 1]
    /\ mcIncDone' = [mcIncDone EXCEPT ![mcId[p]] = @ + 1]
    /\ mcOut' = [op |-> "inc", id |-> mcId[p], ret |-> MCAddResult(mcHeap[mcPtr[p]]),
                 snapStarted |-> 0, snapDone |-> 0]
    /\ mcPc' = [mcPc EXCEPT ![p] = "idle"]
    /\ mcOp' = [mcOp EXCEPT ![p] = "none"]
    /\ mcPtr' = [mcPtr EXCEPT ![p] = 0]
    /\ mcOk' = [mcOk EXCEPT ![p] = FALSE]
    /\ UNCHANGED <<xtVars, apVars, mcM, mcReaders, mcWriters, mcId, mcCalls,
                   mcIncStarted, mcCreated, mcSawAbsent, mcConc,
                   mcSnapStarted, mcSnapDone>>

\* if ptr == nil { return 0 }; return atomic.LoadUint64(ptr): lines 63-66
MCGetLoad(p) ==
    /\ mcPc[p] = "load"
    /\ mcOut' = [op |-> "get", id |-> mcId[p],
                 ret |-> MCLoaded(mcPtr[p]),
                 snapStarted |-> mcSnapStarted[p], snapDone |-> mcSnapDone[p]]
    /\ mcPc' = [mcPc EXCEPT ![p] = "idle"]
    /\ mcOp' = [mcOp EXCEPT ![p] = "none"]
    /\ mcPtr' = [mcPtr EXCEPT ![p] = 0]
    /\ mcOk' = [mcOk EXCEPT ![p] = FALSE]
    /\ mcSnapStarted' = [mcSnapStarted EXCEPT ![p] = 0]
    /\ mcSnapDone' = [mcSnapDone EXCEPT ![p] = 0]
    /\ UNCHANGED <<xtVars, apVars, mcM, mcHeap, mcReaders, mcWriters, mcId, mcCalls,
                   mcIncStarted, mcIncDone, mcCreated, mcSawAbsent, mcConc>>

MCNext ==
    \E p \in MCProcs :
        \/ MCIncCall(p)
        \/ MCGetCall(p)
        \/ MCRLock(p)
        \/ MCRUnlock(p)
        \/ MCLock(p)
        \/ MCRecheck(p)
        \/ MCCreate(p)
        \/ MCUnlock(p)
        \/ MCAdd(p)
        \/ MCGetLoad(p)

(* ---------------------------------------------------------------------- *)
(* api.Handler: /hit and /count over Redis with the in-memory fallback     *)
(* ---------------------------------------------------------------------- *)

\* identifiers a request may carry in ?id=; "" is the omitted identifier
ApiIdIn == {"", "home", "a"}

\* if id == "" { id = "home" }
ApiNormId(id) == IF id = "" THEN "home" ELSE id

ApiIds == {ApiNormId(i) : i \in ApiIdIn}

ApiPaths == {"/hit", "/count"}
\* the read-only endpoints for badges
ApiBadgePaths == {"/count.txt", "/badge", "/badge.json"}
ApiMethods == {"GET", "POST", "PUT"}
ApiTokens == {"", "s3cret"}

\* the reply of GET for a key that does not exist (redis.Nil)
RNil == -1
\* a stored value that is not a decimal number
RBad == -2

\* authorize(r): open when SECRET_TOKEN is unset, else the header or query
\* token must equal it
ApiAuthorize(token) == envSecret = "" \/ token = envSecret

\* the checks before the counter is touched: 0 lets the request through
ApiGate(path, method, token) ==
    IF path = "/hit"
    THEN IF ~ApiAuthorize(token) THEN 401
         ELSE IF method # "GET" /\ method # "POST" THEN 405
         ELSE 0
    ELSE IF method # "GET" THEN 405 ELSE 0

\* mutation: rendering a badge counts as a visit
ApiWritesOnBadge(path) == path \in {"/hit", "/badge", "/badge.json"}
\* switch r.URL.Path: only case "/hit" runs INCR and globalCount.Add
ApiWrites(path) == path = "/hit"

\* the Redis key of an identifier: "hits:"+id
ApiKey(id) == <<"hits:", id>>

\* mutation: a plain "not initialised yet" test instead of sync.Once
OnceMayEnterUnguarded == apOnce # "done"
\* mutation: a failed initialisation is tried again by the next caller
OnceMayEnterRetry == apOnce = "fresh" \/ (apOnce = "done" /\ ~apClient)
\* redisOnce.Do runs its function only for the first caller
OnceMayEnter == apOnce = "fresh"

\* mutation: the digits in front of the first bad character are taken as the
\* number, 1 for the stored text of the model
ApiParseUintLenient(s) == IF s >= 0 THEN s ELSE 1
\* strconv.ParseUint(s, 10, 64) on the stored text: the number, or -1 on error
ApiParseUint(s) == IF s >= 0 THEN s ELSE -1

\* mutation: the fallback answers with the value before the increment
ApiAddResultOld(g) == g
\* globalCount.Add(1) returns the new value
ApiAddResult(g) == g + 1

\* mutation: /count never consults globalCount
ApiReadValueNoFallback(val, g) == val
\* if val == 0 { val = globalCount.Load() }
ApiReadValue(val, g) == IF val = 0 THEN g ELSE val

\* mutation: every /hit counts in globalCount as well
ApiNeedsFallbackAlways(newVal) == TRUE
\* if newVal == 0 { newVal = globalCount.Add(1) }
ApiNeedsFallback(newVal) == newVal = 0

\* mutation: the Redis call runs under the request context alone, without a
\* deadline
ApiCtxUnbounded == FALSE
\* context.WithTimeout(r.Context(), 1500*time.Millisecond): the call returns
\* when the deadline passes or the request is cancelled, whatever the server
\* does
ApiCtxBounded == TRUE

\* a Redis call can return: the server answers or the context ends the wait
ApiCallReturns == ~envSilent \/ ApiCtxBounded

\* the "source" field: "redis" iff getRedis() != nil
ApiSource == IF apClient THEN "redis" ELSE "memory"

\* mutation: a failed Redis call is answered 502
ApiFinalStatusSurfacing(call) == IF call \in {"err", "lost"} THEN 502 ELSE 200
\* the handler writes the body without WriteHeader: status 200
ApiFinalStatus(call) == 200

ApiInFlight(q) == apPc[q] # "idle"

\* no response was written by the step just taken
NoOut == [path |-> "none", id |-> "home", status |-> 0, val |-> 0,
          src |-> "none", call |-> "none", origin |-> "none", prevVal |-> -1,
          prevOrigin |-> "none", clean |-> FALSE, never |-> FALSE,
          role |-> "none", k |-> 0, key |-> <<>>, badge |-> <<>>,
          method |-> "", token |-> ""]

\* the state of api.Handler's package before any request
ApiIdle ==
    /\ apOnce = "fresh"
    /\ apClient = FALSE
    /\ apGlobal = envSeed
    /\ apStore = apStore0
    /\ apPc = [p \in ApiProcs |-> "idle"]
    /\ apPath = [p \in ApiProcs |-> "none"]
    /\ apId = [p \in ApiProcs |-> "home"]
    /\ apVal = [p \in ApiProcs |-> 0]
    /\ apCall = [p \in ApiProcs |-> "none"]
    /\ apClean = [p \in ApiProcs |-> FALSE]
    /\ apRole = [p \in ApiProcs |-> "none"]
    /\ apReqs = 0
    /\ apInitRuns = 0
    /\ apHitBegun = [i \in ApiIds |-> FALSE]
    /\ apLastVal = [i \in ApiIds |-> -1]
    /\ apLastOrigin = [i \in ApiIds |-> "none"]
    /\ apScen = 0
    /\ apOut = NoOut

\* no Redis configured, no secret, no seed: the environment of the server
\* that only uses the MultiCounter
ApiOff ==
    /\ envRedis = "unset"
    /\ envSecret = ""
    /\ envSeed = 0
    /\ apStore0 = [i \in ApiIds |-> RNil]
    /\ ApiIdle

\* init(): globalCount is seeded from INITIAL_HIT_COUNT; the environment and
\* the content of the durable store are whatever the deployment has
ApiInit ==
    /\ envRedis \in {"unset", "badurl", "good"}
    /\ envSecret \in {"", "s3cret"}
    /\ envSeed \in {0, SeedVal}
    /\ apStore0 \in {[i \in ApiIds |-> IF i = "home" THEN v ELSE RNil] :
                        v \in {RNil, PreVal, RBad}}
    /\ envRedis # "good" => apStore0 = [i \in ApiIds |-> RNil]
    /\ ApiIdle

\* a request arrives: the switch on the path, authorize, the method check,
\* the id default and, once the initialisation is over, getRedis()
\* (lines 101-121, 141-153); a rejected request is answered at once
ApiBeginWith(p, max, paths, ids) ==
    \E path \in paths, method \in ApiMethods, token \in ApiTokens,
       idin \in ids :
        LET gate == ApiGate(path, method, token)
            id == ApiNormId(idin)
            alone == \A q \in ApiProcs \ {p} : ~ApiInFlight(q)
            role == IF /\ apScen >= 0 /\ alone /\ gate = 0 /\ id = "home"
                       /\ path \in ApiPaths
                    THEN (IF path = "/hit" THEN "hit" ELSE "read")
                    ELSE "none"
        IN  /\ apPc[p] = "idle"
            /\ apReqs < max
            /\ apReqs' = apReqs + 1
            /\ apPath' = [apPath EXCEPT ![p] = IF gate = 0 THEN path ELSE "none"]
            /\ apId' = [apId EXCEPT ![p] = IF gate = 0 THEN id ELSE "home"]
            /\ apPc' = [apPc EXCEPT ![p] =
                           IF gate # 0 THEN "idle"
                           ELSE IF apOnce = "done" /\ ~OnceMayEnter
                                THEN (IF apClient THEN "call" ELSE "fallback")
                                ELSE "getredis"]
            /\ apHitBegun' = IF ApiWrites(path) /\ gate = 0
                             THEN [apHitBegun EXCEPT ![id] = TRUE]
                             ELSE apHitBegun
            /\ apClean' = [apClean EXCEPT ![p] = gate = 0]
            /\ apRole' = [q \in ApiProcs |-> IF q = p THEN role ELSE "none"]
            /\ apScen' = IF role = "none" THEN -1 ELSE apScen
            /\ apOut' = IF gate = 0 THEN NoOut
                        ELSE IF ApiWrites(path)
                        THEN [NoOut EXCEPT !.path = path, !.id = id,
                                           !.status = gate, !.method = method,
                                           !.token = token]
                        ELSE [NoOut EXCEPT !.path = path, !.id = id, !.status = gate]
            /\ UNCHANGED <<xtVars, mcVars, envRedis, envSecret, envSeed, apGlobal,
                           apOnce, apClient, apStore, apStore0, apVal, apCall,
                           apInitRuns, apLastVal, apLastOrigin>>

ApiBeginFrom(p, max, paths) == ApiBeginWith(p, max, paths, ApiIdIn)

ApiBeginUpTo(p, max) == ApiBeginFrom(p, max, ApiPaths)

ApiBegin(p) == ApiBeginUpTo(p, MaxReqApi)

\* getRedis(), first caller: redisOnce.Do starts running the initializer
ApiOnceEnter(p) ==
    /\ apPc[p] = "getredis"
    /\ OnceMayEnter
    /\ apOnce' = "running"
    /\ apInitRuns' = apInitRuns + 1
    /\ apPc' = [apPc EXCEPT ![p] = "init"]
    /\ apOut' = NoOut
    /\ UNCHANGED <<xtVars, mcVars, envRedis, envSecret, envSeed, apGlobal, apClient,
                   apStore, apStore0, apPath, apId, apVal, apCall, apClean,
                   apRole, apReqs, apHitBegun, apLastVal, apLastOrigin, apScen>>

\* the initializer body (lines 49-73) ends: no URL, a URL that does not parse
\* and a failed ping leave redisClient nil; getRedis returns redisClient
ApiInitBody(p) ==
    \E pingOk \in BOOLEAN :
        LET client == envRedis = "good" /\ pingOk /\ ~envSilent
        IN  /\ apPc[p] = "init"
            /\ apClient' = (apClient \/ client)
            /\ apOnce' = "done"
            /\ apPc' = [apPc EXCEPT ![p] =
                           IF apClient \/ client THEN "call" ELSE "fallback"]
            /\ apOut' = NoOut
            /\ UNCHANGED <<xtVars, mcVars, envRedis, envSecret, envSeed, apGlobal,
                           apStore, apStore0, apPath, apId, apVal, apCall,
                           apClean, apRole, apReqs, apInitRuns, apHitBegun,
                           apLastVal, apLastOrigin, apScen>>

\* getRedis() for a caller that waited in redisOnce.Do while the initializer
\* ran: Do returns, getRedis returns redisClient
ApiOnceDone(p) ==
    /\ apPc[p] = "getredis"
    /\ apOnce = "done"
    /\ ~OnceMayEnter
    /\ apPc' = [apPc EXCEPT ![p] = IF apClient THEN "call" ELSE "fallback"]
    /\ apOut' = NoOut
    /\ UNCHANGED <<xtVars, mcVars, envRedis, envSecret, envSeed, apGlobal, apOnce,
                   apClient, apStore, apStore0, apPath, apId, apVal, apCall,
                   apClean, apRole, apReqs, apInitRuns, apHitBegun, apLastVal,
                   apLastOrigin, apScen>>

\* rc.Incr(ctx, "hits:"+id) (lines 122-130): the reply carries the new value;
\* an error (connection, timeout, cancelled request, non-numeric value)
\* leaves newVal 0; a reply lost to the timeout after the server applied the
\* increment is an error to the handler as well; a server that has stopped
\* answering sends no reply
ApiIncr(p) ==
    /\ apPc[p] = "call"
    /\ ApiWrites(apPath[p])
    /\ ApiCallReturns
    /\ \/ /\ ~envSilent
          /\ apStore[apId[p]] # RBad
          /\ apStore' = [apStore EXCEPT ![apId[p]] = IF @ = RNil THEN 1 ELSE @ + 1]
          /\ apVal' = [apVal EXCEPT ![p] = IF apStore[apId[p]] = RNil THEN 1
                                            ELSE apStore[apId[p]] + 1]
          /\ apCall' = [apCall EXCEPT ![p] = "ok"]
       \/ /\ apStore[apId[p]] # RBad
          /\ apStore' = [apStore EXCEPT ![apId[p]] = IF @ = RNil THEN 1 ELSE @ + 1]
          /\ apCall' = [apCall EXCEPT ![p] = "lost"]
          /\ UNCHANGED apVal
       \/ /\ apCall' = [apCall EXCEPT ![p] = "err"]
          /\ UNCHANGED <<apStore, apVal>>
    /\ apPc' = [apPc EXCEPT ![p] = "fallback"]
    /\ apOut' = [NoOut EXCEPT !.key = ApiKey(apId[p])]
    /\ UNCHANGED <<xtVars, mcVars, envRedis, envSecret, envSeed, apGlobal, apOnce,
                   apClient, apStore0, apPath, apId, apClean, apRole, apReqs,
                   apInitRuns, apHitBegun, apLastVal, apLastOrigin, apScen>>

\* rc.Get(ctx, "hits:"+id) and ParseUint (lines 154-164): a missing key
\* (redis.Nil), an error and a value that does not parse all leave val 0
ApiGet(p) ==
    /\ apPc[p] = "call"
    /\ ~ApiWrites(apPath[p])
    /\ ApiCallReturns
    /\ \/ /\ ~envSilent
          /\ apStore[apId[p]] = RNil
          /\ apCall' = [apCall EXCEPT ![p] = "nil"]
          /\ UNCHANGED apVal
       \/ /\ ~envSilent
          /\ apStore[apId[p]] # RNil
          /\ ApiParseUint(apStore[apId[p]]) >= 0
          /\ apVal' = [apVal EXCEPT ![p] = ApiParseUint(apStore[apId[p]])]
          /\ apCall' = [apCall EXCEPT ![p] = "ok"]
       \/ /\ ~envSilent
          /\ apStore[apId[p]] # RNil
          /\ ApiParseUint(apStore[apId[p]]) < 0
          /\ apCall' = [apCall EXCEPT ![p] = "badval"]
          /\ UNCHANGED apVal
       \/ /\ apCall' = [apCall EXCEPT ![p] = "err"]
          /\ UNCHANGED apVal
    /\ apPc' = [apPc EXCEPT ![p] = "fallback"]
    /\ apOut' = [NoOut EXCEPT !.key = ApiKey(apId[p])]
    /\ UNCHANGED <<xtVars, mcVars, envRedis, envSecret, envSeed, apGlobal, apOnce,
                   apClient, apStore, apStore0, apPath, apId, apClean, apRole,
                   apReqs, apInitRuns, apHitBegun, apLastVal, apLastOrigin,
                   apScen>>

\* the fallback and the response (lines 131-140 and 165-180); the handler
\* returns
ApiFinish(p) ==
    LET id == apId[p]
        fromMem == IF ApiWrites(apPath[p]) THEN ApiNeedsFallback(apVal[p])
                   ELSE apVal[p] = 0
        val == IF ApiWrites(apPath[p])
               THEN (IF fromMem THEN ApiAddResult(apGlobal) ELSE apVal[p])
               ELSE ApiReadValue(apVal[p], apGlobal)
        origin == IF fromMem THEN "memory" ELSE "redis"
        inScen == apRole[p] # "none" /\ apScen >= 0
    IN  /\ apPc[p] = "fallback"
        /\ apPath[p] \in ApiPaths
        /\ apGlobal' = IF ApiWrites(apPath[p]) /\ fromMem THEN apGlobal + 1
                       ELSE apGlobal
        /\ apOut' = [path |-> apPath[p], id |-> id,
                     status |-> ApiFinalStatus(apCall[p]), val |-> val,
                     src |-> ApiSource, call |-> apCall[p], origin |-> origin,
                     prevVal |-> apLastVal[id], prevOrigin |-> apLastOrigin[id],
                     clean |-> apClean[p],
                     never |-> ~apHitBegun[id] /\ apStore0[id] = RNil,
                     role |-> IF inScen THEN apRole[p] ELSE "none",
                     k |-> IF ~inScen THEN 0
                           ELSE IF apRole[p] = "hit" THEN apScen + 1 ELSE apScen,
                     key |-> <<>>, badge |-> <<>>,
                     method |-> "", token |-> ""]
        /\ apLastVal' = [apLastVal EXCEPT ![id] = val]
        /\ apLastOrigin' = [apLastOrigin EXCEPT ![id] = origin]
        /\ apClean' = [q \in ApiProcs |->
                          IF q # p /\ ApiInFlight(q) /\ apId[q] = id
                          THEN FALSE
                          ELSE IF q = p THEN FALSE ELSE apClean[q]]
        /\ apScen' = IF inScen /\ apRole[p] = "hit" THEN apScen + 1 ELSE -1
        /\ apRole' = [apRole EXCEPT ![p] = "none"]
        /\ apPc' = [apPc EXCEPT ![p] = "idle"]
        /\ apPath' = [apPath EXCEPT ![p] = "none"]
        /\ apId' = [apId EXCEPT ![p] = "home"]
        /\ apVal' = [apVal EXCEPT ![p] = 0]
        /\ apCall' = [apCall EXCEPT ![p] = "none"]
        /\ UNCHANGED <<xtVars, mcVars, envRedis, envSecret, envSeed, apOnce, apClient,
                       apStore, apStore0, apReqs, apInitRuns, apHitBegun>>

ApiNext ==
    \E p \in ApiProcs :
        \/ ApiBegin(p)
        \/ ApiOnceEnter(p)
        \/ ApiInitBody(p)
        \/ ApiOnceDone(p)
        \/ ApiIncr(p)
        \/ ApiGet(p)
        \/ ApiFinish(p)

\* the Redis server stops answering (a partition, a hung instance)
RedisGoesSilent ==
    /\ ~envSilent
    /\ envSilent' = TRUE
    /\ apOut' = NoOut
    /\ UNCHANGED <<mcVars, ncVars, svVars, envPrefix, envFailFast, svSeed,
                   envRedis, envSecret, envSeed, apGlobal, apOnce, apClient,
                   apStore, apStore0, apPc, apPath, apId, apVal, apCall,
                   apClean, apRole, apReqs, apInitRuns, apHitBegun, apLastVal,
                   apLastOrigin, apScen>>

\* the steps the handler goroutine of request p takes by itself
ApiStep(p) ==
    \/ ApiOnceEnter(p)
    \/ ApiInitBody(p)
    \/ ApiOnceDone(p)
    \/ ApiIncr(p)
    \/ ApiGet(p)
    \/ ApiFinish(p)

\* the requests sent to it name no id: all act on "home"
ApiLiveBegin(p) == ApiBeginWith(p, MaxReqLive, ApiPaths, {""})

\* concurrent requests against a Redis server that may stop answering
ApiLiveNext ==
    \/ \E p \in ApiProcs : ApiLiveBegin(p) \/ ApiStep(p)
    \/ RedisGoesSilent

\* one request at a time: the next request is sent after the previous
\* response was received
ApiSeqBegin == ApiBeginUpTo(1, MaxReqSeq)

ApiSeqNext ==
    \/ ApiSeqBegin
    \/ ApiOnceEnter(1)
    \/ ApiInitBody(1)
    \/ ApiIncr(1)
    \/ ApiGet(1)
    \/ ApiFinish(1)

(* ---------------------------------------------------------------------- *)
(* Text: a Go string is the sequence of its characters                     *)
(* ---------------------------------------------------------------------- *)

\* the longest color argument taken from the whole alphabet
MaxColorLen == 4

\* a character of two bytes in UTF-8 (U+00E9)
EAcute == "e'"

\* the characters color arguments are built from: digits and letters in and
\* out of the hexadecimal range, in both cases, white space, markup
\* characters and a character of more than one byte
ColorChars == {"#", "a", "F", "9", "z", " ", "\"", EAcute}

\* len(s): the number of bytes
CharBytes(ch) == IF ch = EAcute THEN 2 ELSE 1

RECURSIVE ByteLen(_)
ByteLen(s) == IF s = <<>> THEN 0 ELSE CharBytes(Head(s)) + ByteLen(Tail(s))

UpperChars == <<"A", "B", "C", "D", "E", "F", "G", "H", "I", "J", "K", "L", "M",
                "N", "O", "P", "Q", "R", "S", "T", "U", "V", "W", "X", "Y", "Z">>
LowerChars == <<"a", "b", "c", "d", "e", "f", "g", "h", "i", "j", "k", "l", "m",
                "n", "o", "p", "q", "r", "s", "t", "u", "v", "w", "x", "y", "z">>

\* strings.ToLower
ToLowerChar(ch) ==
    IF \E i \in 1..26 : UpperChars[i] = ch
    THEN LowerChars[CHOOSE i \in 1..26 : UpperChars[i] = ch]
    ELSE ch

ToLower(s) == [i \in 1..Len(s) |-> ToLowerChar(s[i])]

IsSpace(ch) == ch \in {" ", "\t", "\n", "\r"}

RECURSIVE TrimLeft(_)
TrimLeft(s) == IF s # <<>> /\ IsSpace(Head(s)) THEN TrimLeft(Tail(s)) ELSE s

RECURSIVE TrimRight(_)
TrimRight(s) ==
    IF s # <<>> /\ IsSpace(s[Len(s)]) THEN TrimRight(SubSeq(s, 1, Len(s) - 1))
    ELSE s

\* strings.TrimSpace
TrimSpace(s) == TrimRight(TrimLeft(s))

\* strings.HasPrefix(s, "#")
HasHashPrefix(s) == s # <<>> /\ s[1] = "#"

DigitChars == <<"0", "1", "2", "3", "4", "5", "6", "7", "8", "9">>

\* strconv.FormatUint(n, 10)
RECURSIVE FormatUint(_)
FormatUint(n) ==
    IF n < 10 THEN <<DigitChars[n + 1]>>
    ELSE FormatUint(n \div 10) \o <<DigitChars[(n % 10) + 1]>>

(* ---------------------------------------------------------------------- *)
(* normalizeColor                                                          *)
(* ---------------------------------------------------------------------- *)

\* case "blue", "green", "red", "orange", "yellow", "gray", "grey", "purple",
\* "teal"
NamedColors ==
    {<<"b", "l", "u", "e">>, <<"g", "r", "e", "e", "n">>, <<"r", "e", "d">>,
     <<"o", "r", "a", "n", "g", "e">>, <<"y", "e", "l", "l", "o", "w">>,
     <<"g", "r", "a", "y">>, <<"g", "r", "e", "y">>,
     <<"p", "u", "r", "p", "l", "e">>, <<"t", "e", "a", "l">>}

\* the fallbacks the /badge handler passes: "#1e1e1e", "#aaa", "#3cffb3"
DefaultBg == <<"#", "1", "e", "1", "e", "1", "e">>
DefaultLabelColor == <<"#", "a", "a", "a">>
DefaultValueColor == <<"#", "3", "c", "f", "f", "b", "3">>
ColorDefaults == {DefaultBg, DefaultLabelColor, DefaultValueColor}

\* mutation: only the six-digit form is accepted
HashLenOkLongOnly(n) == n = 7
\* len(lc) == 4 || len(lc) == 7
HashLenOk(n) == n = 4 \/ n = 7

normalizeColor(c, fallback) ==
    IF c = <<>> THEN fallback
    ELSE LET t == TrimSpace(c)
             lc == ToLower(t)
         IN  IF HasHashPrefix(lc)
             THEN (IF HashLenOk(ByteLen(lc)) THEN lc ELSE fallback)
             ELSE IF lc \in NamedColors THEN lc
             ELSE fallback

\* the arguments tried: every string of up to MaxColorLen characters, and
\* longer ones of each kind
ColorLongInputs ==
    {<<"#", "a", "b", "c">>,
     <<"#", "a", "b", "c", "d", "e", "f">>,
     <<"#", "A", "B", "C", "D", "E", "F">>,
     <<"#", "a", "b", "c", "d", "e", "g">>,
     <<"#", "\"", ">", "<", "s", "v", "g">>,
     <<"#", "a", "b", "c", "d">>,
     <<"#", "a", "b", "c", "d", "e">>,
     <<"#", "a", "b", "c", "d", "e", "f", "a">>,
     <<"n", "o", "t", "-", "a", "-", "c", "o", "l", "o", "r">>,
     <<"B", "l", "u", "e">>,
     <<" ", "b", "l", "u", "e", " ">>,
     <<"B", "L", "U", "E">>,
     <<"b", "l", "u", "e", "e">>,
     <<" ", "#", "a", "b", "c">>,
     <<"#", "A", "b", "C", "\t">>}

ColorInputs ==
    UNION {[1..n -> ColorChars] : n \in 0..MaxColorLen}
        \cup NamedColors \cup ColorDefaults \cup ColorLongInputs

\* no call of normalizeColor is modelled
NcOff ==
    /\ ncC = <<>>
    /\ ncFallback = <<>>
    /\ ncDone = FALSE
    /\ ncRes = <<>>

NcInit ==
    /\ ncC \in ColorInputs
    /\ ncFallback \in ColorDefaults
    /\ ncDone = FALSE
    /\ ncRes = <<>>

NormalizeColorCall ==
    /\ ~ncDone
    /\ ncDone' = TRUE
    /\ ncRes' = normalizeColor(ncC, ncFallback)
    /\ UNCHANGED <<mcVars, apVars, envVars, svVars, ncC, ncFallback>>

NcNext == NormalizeColorCall

(* ---------------------------------------------------------------------- *)
(* api.Handler: /count.txt, /badge and /badge.json                         *)
(* ---------------------------------------------------------------------- *)

\* requests of one run of the badge endpoints
MaxReqBadge == 2
\* INITIAL_HIT_COUNT and the stored count of "home" in those runs
BadgeSeedVal == 9
BadgePreVal == 41

Views == <<"v", "i", "e", "w", "s">>
Blue == <<"b", "l", "u", "e">>

\* the default fonts of the two styles
ClassicFont == "Verdana,Geneva,DejaVu Sans,sans-serif"
TerminalFont == "SFMono-Regular, SF Mono, Menlo, ui-monospace, monospace"

\* ?label=
BadgeLabels == {<<>>, Views, <<"a">>, <<"c", "a", "f", EAcute>>}
\* ?style=
BadgeStyles == {"", "terminal", "mono", "flat"}
\* ?font=
BadgeFonts == {"", "Courier New"}
\* ?color=, ?bg=, ?labelColor=, ?valueColor=: absent, named, hexadecimal,
\* padded, and two strings carrying markup
BadgeColorArgs ==
    {<<>>, Blue, <<"#", "a", "9", "F">>, <<" ", "r", "e", "d", " ">>, <<"#", "\"", ">", "<">>, <<"\"", ">", "<", "x">>}

\* the three colors of a terminal badge: the same argument for each, one
\* alone, or three different ones
BadgeColorTriples ==
    {<<c, c, c>> : c \in BadgeColorArgs}
        \cup {<<<<"#", "\"", ">", "<">>, <<>>, <<>>>>,
              <<Blue, <<"#", "a", "9", "F">>, <<" ", "r", "e", "d", " ">>>>}

\* a request without query parameters
BadgeNoQuery ==
    [label |-> <<>>, style |-> "", color |-> <<>>, bg |-> <<>>,
     labelColor |-> <<>>, valueColor |-> <<>>, font |-> ""]

\* the query parameters a request to the path can carry: each parameter is
\* varied over its values
BadgeQueries(path) ==
    IF path = "/badge"
    THEN {[BadgeNoQuery EXCEPT !.label = l] : l \in BadgeLabels}
         \cup {[BadgeNoQuery EXCEPT !.color = c] : c \in BadgeColorArgs}
         \cup {[BadgeNoQuery EXCEPT !.style = "flat", !.font = f,
                                    !.color = Blue] : f \in BadgeFonts}
         \cup {[BadgeNoQuery EXCEPT !.style = "terminal", !.label = l] :
                  l \in BadgeLabels}
         \cup {[BadgeNoQuery EXCEPT !.style = "terminal", !.bg = t[1],
                                    !.labelColor = t[2], !.valueColor = t[3]] :
                  t \in BadgeColorTriples}
         \cup {[BadgeNoQuery EXCEPT !.style = "mono", !.font = f,
                                    !.color = <<"\"", ">", "<", "x">>] :
                  f \in BadgeFonts}
    ELSE IF path = "/badge.json"
    THEN {[BadgeNoQuery EXCEPT !.label = l] : l \in BadgeLabels}
         \cup {[BadgeNoQuery EXCEPT !.color = c] : c \in BadgeColorArgs}
         \cup {[BadgeNoQuery EXCEPT !.label = Views, !.color = Blue]}
    ELSE {BadgeNoQuery}

\* mutation: the value segment is sized like the label segment of the
\* terminal style
ClassicWidthWide(text) == 8 * ByteLen(text) + 14
\* 6*len(text) + 10
ClassicWidth(text) == 6 * ByteLen(text) + 10

\* buildBadgeSVG: the arguments of the Sprintf, by the place they take in
\* the markup
buildBadgeSVG(label, count, color, font) ==
    LET textVal == FormatUint(count)
        labelWidth == ClassicWidth(label)
        valWidth == ClassicWidth(textVal)
        total == labelWidth + valWidth
    IN  [kind |-> "classic",
         width |-> total, ariaLabel |-> label, ariaValue |-> textVal,
         backWidth |-> total,
         valueX |-> labelWidth, valueWidth |-> valWidth, fills |-> <<color>>,
         shadeWidth |-> total, font |-> font,
         labelTextX |-> labelWidth \div 2, labelText |-> label,
         valueTextX |-> labelWidth + valWidth \div 2, valueText |-> textVal]

\* mutation: the label is measured without the colon
TerminalLabelTextBare(label) == label
\* labelText := label + ":"
TerminalLabelText(label) == label \o <<":">>

\* 8*len(text) + 14
TerminalWidth(text) == 8 * ByteLen(text) + 14

\* buildTerminalBadge
buildTerminalBadge(label, count, font, bg, labelColor, valueColor) ==
    LET textVal == FormatUint(count)
        labelText == TerminalLabelText(label)
        labelWidth == TerminalWidth(labelText)
        valWidth == TerminalWidth(textVal)
        total == labelWidth + valWidth
    IN  [kind |-> "terminal",
         width |-> total, ariaLabel |-> label, ariaValue |-> textVal,
         backWidth |-> total, fills |-> <<bg, labelColor, valueColor>>,
         font |-> font,
         labelTextX |-> 8, labelText |-> labelText,
         valueTextX |-> labelWidth, valueText |-> textVal]

\* label := r.URL.Query().Get("label"); if label == "" { label = "views" }
ApiBadgeLabel(label) == IF label = <<>> THEN Views ELSE label

\* mutation: an absent color is left empty
ApiBadgeColorAsGiven(color) == color
\* color := r.URL.Query().Get("color"); if color == "" { color = "blue" }
ApiBadgeColor(color) == IF color = <<>> THEN Blue ELSE color

\* case "/badge" after the value is read (lines 230-261)
ApiBadgeSVG(q, val) ==
    LET label == ApiBadgeLabel(q.label)
    IN  IF q.style = "terminal" \/ q.style = "mono"
        THEN buildTerminalBadge(label, val,
                 IF q.font = "" THEN TerminalFont ELSE q.font,
                 normalizeColor(q.bg, DefaultBg),
                 normalizeColor(q.labelColor, DefaultLabelColor),
                 normalizeColor(q.valueColor, DefaultValueColor))
        ELSE buildBadgeSVG(label, val, ApiBadgeColor(q.color),
                 IF q.font = "" THEN ClassicFont ELSE q.font)

\* case "/badge.json" after the value is read (lines 287-302)
ApiBadgeJSON(q, val) ==
    [kind |-> "schema", schemaVersion |-> 1, label |-> ApiBadgeLabel(q.label),
     message |-> FormatUint(val), color |-> ApiBadgeColor(q.color)]

\* case "/count.txt" after the value is read (lines 204-206)
ApiCountTxt(val) == [kind |-> "text", body |-> FormatUint(val)]

ApiBadgeBody(path, q, val) ==
    IF path = "/badge" THEN ApiBadgeSVG(q, val)
    ELSE IF path = "/badge.json" THEN ApiBadgeJSON(q, val)
    ELSE ApiCountTxt(val)

\* the fallback read and the response of /count.txt, /badge and /badge.json
\* (lines 201-206, 227-261, 284-302); the handler returns
ApiBadgeFinish(p) ==
    LET id == apId[p]
        path == apPath[p]
        val == ApiReadValue(apVal[p], apGlobal)
    IN  /\ apPc[p] = "fallback"
        /\ path \in ApiBadgePaths
        /\ \E q \in BadgeQueries(path) :
              apOut' = [NoOut EXCEPT !.path = path, !.id = id, !.status = 200,
                                     !.val = val, !.call = apCall[p],
                                     !.badge = [out |-> ApiBadgeBody(path, q, val),
                                                q |-> q]]
        /\ apClean' = [q \in ApiProcs |->
                          IF q # p /\ ApiInFlight(q) /\ apId[q] = id
                          THEN FALSE
                          ELSE IF q = p THEN FALSE ELSE apClean[q]]
        /\ apScen' = -1
        /\ apRole' = [apRole EXCEPT ![p] = "none"]
        /\ apPc' = [apPc EXCEPT ![p] = "idle"]
        /\ apPath' = [apPath EXCEPT ![p] = "none"]
        /\ apId' = [apId EXCEPT ![p] = "home"]
        /\ apVal' = [apVal EXCEPT ![p] = 0]
        /\ apCall' = [apCall EXCEPT ![p] = "none"]
        /\ UNCHANGED <<xtVars, mcVars, envRedis, envSecret, envSeed, apGlobal,
                       apOnce, apClient, apStore, apStore0, apReqs, apInitRuns,
                       apHitBegun, apLastVal, apLastOrigin>>

\* the deployments the badge endpoints are tried in
BadgeInit ==
    /\ envRedis \in {"unset", "good"}
    /\ envSecret \in {"", "s3cret"}
    /\ envSeed \in {0, BadgeSeedVal}
    /\ envPrefix \in {"", "v2:"}
    /\ apStore0 \in {[i \in ApiIds |-> IF i = "home" THEN v ELSE RNil] :
                        v \in {RNil, BadgePreVal}}
    /\ envRedis # "good" => apStore0 = [i \in ApiIds |-> RNil]
    /\ ApiIdle

\* one request at a time, to any of the five endpoints
ApiBadgeSeqBegin == ApiBeginFrom(1, MaxReqBadge, ApiPaths \cup ApiBadgePaths)

BadgeNext ==
    \/ ApiBadgeSeqBegin
    \/ ApiOnceEnter(1)
    \/ ApiInitBody(1)
    \/ ApiIncr(1)
    \/ ApiGet(1)
    \/ ApiFinish(1)
    \/ ApiBadgeFinish(1)

(* ---------------------------------------------------------------------- *)
(* The standalone server: main's handlers over singleCounter, the          *)
(* MultiCounter and the persistence file                                   *)
(* ---------------------------------------------------------------------- *)

\* request goroutines and requests of one run of the server
NProcSrv == 2
MaxReqSrv == 2
\* the count found in the persistence file at start
SvLoadedVal == 3
\* the seed INITIAL_HIT_COUNT carries when it is set
SvSeedVal == 2

SrvProcs == 1..NProcSrv
SrvPaths == {"/hit", "/count", "/count.txt", "/badge"}

\* a file that does not exist, and a file whose content is not a number
\* (a write that failed part-way leaves one)
FileAbsent == -1
FilePartial == -2

\* authorize(secretToken, r)
SvAuthorize(token) == svSecret = "" \/ token = svSecret

\* mutation: the handlers accept every method
SvGateAnyMethod(path, method, token) ==
    IF ~SvAuthorize(token) THEN 401 ELSE 0
\* the checks at the head of each handler, the method first: 0 lets the
\* request through
SvGate(path, method, token) ==
    IF path = "/hit" /\ method # "POST" /\ method # "GET" THEN 405
    ELSE IF path # "/hit" /\ method # "GET" THEN 405
    ELSE IF ~SvAuthorize(token) THEN 401
    ELSE 0

\* loadCountFromFile at start: a missing or unparsable file leaves the
\* counter 0
SvLoaded(persist, file) == IF persist /\ file >= 0 THEN file ELSE 0

\* mutation: a request whose count could not be persisted is failed
SvHitStatusStrict(persistFailed) == IF persistFailed THEN 500 ELSE 200
\* the persist error is logged; writeJSON(w, http.StatusOK, ...)
SvHitStatus(persistFailed) == 200

\* multi.Inc(id) as one step: C1 and C2 show the calls take effect one at a
\* time; the entry is created when absent and incremented
SvMultiAfterInc(id) ==
    IF mcM[id] = 0
    THEN [m |-> [mcM EXCEPT ![id] = Len(mcHeap) + 1],
          heap |-> Append(mcHeap, 1), ret |-> 1, created |-> 1]
    ELSE [m |-> mcM, heap |-> [mcHeap EXCEPT ![mcM[id]] = @ + 1],
          ret |-> mcHeap[mcM[id]] + 1, created |-> 0]

\* no response was written by the step just taken
SvNoOut == [path |-> "none", id |-> "", method |-> "", token |-> "",
            status |-> 0, val |-> 0, persist |-> "none", nth |-> 0,
            badge |-> <<>>]

SvResponse(path, id, method, token, status, val) ==
    [SvNoOut EXCEPT !.path = path, !.id = id, !.method = method,
                    !.token = token, !.status = status, !.val = val]

\* the server is not running
SvOff ==
    /\ svSeed = 0
    /\ svSecret = ""
    /\ svPersist = FALSE
    /\ svSingle = 0
    /\ svFile = FileAbsent
    /\ svTmp = FileAbsent
    /\ svPc = [p \in SrvProcs |-> "idle"]
    /\ svVal = [p \in SrvProcs |-> 0]
    /\ svReqs = 0
    /\ svBase = 0
    /\ svIncs = 0
    /\ svNth = [p \in SrvProcs |-> 0]
    /\ svFault = FALSE
    /\ svOut = SvNoOut

\* main up to ListenAndServe: the environment is read and the persisted
\* count loaded
SvInit ==
    /\ svSecret \in {"", "s3cret"}
    /\ svSeed \in {0, SvSeedVal}
    /\ svPersist \in BOOLEAN
    /\ svFile \in {FileAbsent, FilePartial, SvLoadedVal}
    /\ ~svPersist => svFile = FileAbsent
    /\ svTmp = FileAbsent
    /\ svSingle = SvLoaded(svPersist, svFile)
    /\ svBase = SvLoaded(svPersist, svFile)
    /\ svPc = [p \in SrvProcs |-> "idle"]
    /\ svVal = [p \in SrvProcs |-> 0]
    /\ svReqs = 0
    /\ svIncs = 0
    /\ svNth = [p \in SrvProcs |-> 0]
    /\ svFault = FALSE
    /\ svOut = SvNoOut

\* a request that fails the method check or authorize is answered 405 or
\* 401 before its id is looked at
SvReject(p) ==
    \E path \in SrvPaths, method \in ApiMethods, token \in ApiTokens :
        /\ svPc[p] = "idle"
        /\ svReqs < MaxReqSrv
        /\ SvGate(path, method, token) # 0
        /\ svReqs' = svReqs + 1
        /\ svOut' = SvResponse(path, "", method, token,
                               SvGate(path, method, token), 0)
        /\ UNCHANGED <<mcVars, apVars, ncVars, envVars, svSecret, svPersist,
                       svSingle, svFile, svTmp, svPc, svVal, svBase, svFault,
                       svIncs,
                       svNth>>

\* /hit with an id: multi.Inc(id) and the response
SvHitMulti(p) ==
    \E method \in ApiMethods, token \in ApiTokens, id \in IdIn \ {""} :
        LET after == SvMultiAfterInc(id)
        IN  /\ svPc[p] = "idle"
            /\ svReqs < MaxReqSrv
            /\ SvGate("/hit", method, token) = 0
            /\ svReqs' = svReqs + 1
            /\ mcM' = after.m
            /\ mcHeap' = after.heap
            /\ mcCreated' = [mcCreated EXCEPT ![id] = @ + after.created]
            /\ mcIncStarted' = [mcIncStarted EXCEPT ![id] = @ + 1]
            /\ mcIncDone' = [mcIncDone EXCEPT ![id] = @ + 1]
            /\ svOut' = SvResponse("/hit", id, method, token, 200, after.ret)
            /\ UNCHANGED <<apVars, ncVars, envVars, svSecret, svPersist,
                           svSingle, svFile, svTmp, svPc, svVal, svBase, svFault,
                           svIncs, svNth, mcReaders, mcWriters, mcPc, mcOp,
                           mcId, mcPtr, mcOk, mcOut, mcCalls, mcSawAbsent,
                           mcConc, mcSnapStarted, mcSnapDone>>

\* /hit without an id: singleCounter.Inc(); without PERSIST_FILE the
\* response follows at once
SvHitSingle(p) ==
    \E method \in ApiMethods, token \in ApiTokens :
        /\ svPc[p] = "idle"
        /\ svReqs < MaxReqSrv
        /\ SvGate("/hit", method, token) = 0
        /\ svReqs' = svReqs + 1
        /\ svSingle' = svSingle + 1
        /\ svIncs' = svIncs + 1
        /\ IF svPersist
           THEN /\ svPc' = [svPc EXCEPT ![p] = "write"]
                /\ svVal' = [svVal EXCEPT ![p] = svSingle + 1]
                /\ svNth' = [svNth EXCEPT ![p] = svIncs + 1]
                /\ svOut' = SvNoOut
           ELSE /\ svOut' = [SvResponse("/hit", "", method, token,
                                        SvHitStatus(FALSE), svSingle + 1)
                               EXCEPT !.nth = svIncs + 1]
                /\ UNCHANGED <<svPc, svVal, svNth>>
        /\ UNCHANGED <<mcVars, apVars, ncVars, envVars, svSecret, svPersist,
                       svFile, svTmp, svBase, svFault>>

\* the response of a /hit whose saveCountToFile has returned
SvHitDone(p, failed) ==
    /\ svOut' = [SvResponse("/hit", "", "", "", SvHitStatus(failed), svVal[p])
                   EXCEPT !.nth = svNth[p],
                          !.persist = IF failed THEN "failed" ELSE "ok"]
    /\ svPc' = [svPc EXCEPT ![p] = "idle"]
    /\ svVal' = [svVal EXCEPT ![p] = 0]
    /\ svNth' = [svNth EXCEPT ![p] = 0]

\* saveCountToFile: os.WriteFile(tmp, ...) succeeds, fails before it
\* touched the file, or fails after it truncated it
SvWriteTmp(p) ==
    /\ svPc[p] = "write"
    /\ \/ /\ svTmp' = svVal[p]
          /\ svPc' = [svPc EXCEPT ![p] = "rename"]
          /\ svOut' = SvNoOut
          /\ UNCHANGED <<svVal, svNth, svFault>>
       \/ /\ UNCHANGED svTmp
          /\ svFault' = TRUE
          /\ SvHitDone(p, TRUE)
       \/ /\ svTmp' = FilePartial
          /\ svFault' = TRUE
          /\ SvHitDone(p, TRUE)
    /\ UNCHANGED <<mcVars, apVars, ncVars, envVars, svSecret, svPersist,
                   svSingle, svFile, svReqs, svBase, svIncs>>

\* saveCountToFile: os.Rename(tmp, path) moves the file, or fails (always
\* when tmp is gone: another request has renamed it)
SvRename(p) ==
    /\ svPc[p] = "rename"
    /\ \/ /\ svTmp # FileAbsent
          /\ svFile' = svTmp
          /\ svTmp' = FileAbsent
          /\ SvHitDone(p, FALSE)
          /\ UNCHANGED svFault
       \/ /\ UNCHANGED <<svFile, svTmp>>
          /\ svFault' = TRUE
          /\ SvHitDone(p, TRUE)
    /\ UNCHANGED <<mcVars, apVars, ncVars, envVars, svSecret, svPersist,
                   svSingle, svReqs, svBase, svIncs>>

\* /count and /count.txt: the counter is read and written out
SvRead(p) ==
    \E path \in {"/count", "/count.txt"}, token \in ApiTokens, idin \in IdIn :
        /\ svPc[p] = "idle"
        /\ svReqs < MaxReqSrv
        /\ SvGate(path, "GET", token) = 0
        /\ svReqs' = svReqs + 1
        /\ svOut' = SvResponse(path, idin, "GET", token, 200,
                               IF idin = "" THEN svSingle ELSE MCGetValue(idin))
        /\ UNCHANGED <<mcVars, apVars, ncVars, envVars, svSecret, svPersist,
                       svSingle, svFile, svTmp, svPc, svVal, svBase, svFault,
                       svIncs,
                       svNth>>

\* if label == "" { label = "hits" }
SvBadgeLabel(label) == IF label = <<>> THEN <<"h", "i", "t", "s">> ELSE label

\* /badge: the count of the id ("default" when omitted, read from
\* singleCounter) drawn by buildBadgeSVG, whose font is fixed
SvBadge(p) ==
    \E token \in ApiTokens, idin \in IdIn,
       label \in {<<>>, Views}, color \in {<<>>, <<"\"", ">", "<", "x">>} :
        LET id == IF idin = "" THEN "default" ELSE idin
            count == IF id = "default" THEN svSingle ELSE MCGetValue(id)
        IN  /\ svPc[p] = "idle"
            /\ svReqs < MaxReqSrv
            /\ SvGate("/badge", "GET", token) = 0
            /\ svReqs' = svReqs + 1
            /\ svOut' = [SvResponse("/badge", id, "GET", token, 200, count)
                           EXCEPT !.badge =
                               buildBadgeSVG(SvBadgeLabel(label), count,
                                             ApiBadgeColor(color), ClassicFont)]
            /\ UNCHANGED <<mcVars, apVars, ncVars, envVars, svSecret,
                           svPersist, svSingle, svFile, svTmp, svPc, svVal,
                           svBase, svFault, svIncs, svNth>>

SvNext ==
    \E p \in SrvProcs :
        \/ SvReject(p)
        \/ SvHitMulti(p)
        \/ SvHitSingle(p)
        \/ SvWriteTmp(p)
        \/ SvRename(p)
        \/ SvRead(p)
        \/ SvBadge(p)

(* ---------------------------------------------------------------------- *)
(* Specifications                                                          *)
(* ---------------------------------------------------------------------- *)

\* REDIS_PREFIX and FAIL_FAST_REDIS unset, a Redis server that answers
EnvOff == envPrefix = "" /\ envFailFast = FALSE /\ envSilent = FALSE

\* the standalone server: an empty MultiCounter, api.Handler unused
InitMC == MCInit /\ ApiOff /\ NcOff /\ SvOff /\ EnvOff

\* the serverless deployment: api.Handler in any environment, the
\* MultiCounter unused
InitApi == ApiInit /\ MCInit /\ NcOff /\ SvOff /\ EnvOff

\* the MultiCounter under concurrent callers
SpecMC == InitMC /\ [][MCNext]_vars

\* api.Handler under concurrent requests
SpecApi == InitApi /\ [][ApiNext]_vars

\* api.Handler under requests sent one after another
SpecApiSeq == InitApi /\ [][ApiSeqNext]_vars

\* normalizeColor applied to one pair of arguments
InitColor == MCInit /\ ApiOff /\ NcInit /\ EnvOff /\ SvOff

SpecColor == InitColor /\ [][NcNext]_vars

\* api.Handler deployed with or without FAIL_FAST_REDIS=1 in front of a
\* Redis server that may stop answering
InitLive ==
    /\ envRedis \in {"unset", "badurl", "good"}
    /\ envSecret = ""
    /\ envSeed = 0
    /\ apStore0 = [i \in ApiIds |-> RNil]
    /\ ApiIdle
    /\ envFailFast \in BOOLEAN
    /\ envSilent = FALSE
    /\ envPrefix = ""
    /\ MCInit /\ NcOff /\ SvOff

\* the serverless handler and the standalone server side by side, each with
\* or without SECRET_TOKEN, receiving /hit requests and requests that are
\* turned away
InitGate ==
    /\ envRedis \in {"unset", "good"}
    /\ envSecret \in {"", "s3cret"}
    /\ envSeed = 0
    /\ apStore0 = [i \in ApiIds |-> RNil]
    /\ ApiIdle
    /\ SvInit
    /\ svSeed = 0
    /\ svFile # FilePartial
    /\ MCInit /\ NcOff /\ EnvOff

\* a request arrives at api.Handler's /hit
GateApiBegin ==
    /\ apReqs + svReqs < MaxReqGate
    /\ ApiBeginWith(1, MaxReqGate, {"/hit"}, ApiIdIn)

\* a request arrives at the standalone server and is turned away
GateSrvReject(p) == apReqs + svReqs < MaxReqGate /\ SvReject(p)

\* a /hit without an id arrives at the standalone server
GateSrvHitSingle(p) == apReqs + svReqs < MaxReqGate /\ SvHitSingle(p)

\* a /hit with an id arrives at the standalone server
GateSrvHitMulti(p) == apReqs + svReqs < MaxReqGate /\ SvHitMulti(p)

GateNext ==
    \/ GateApiBegin
    \/ ApiOnceEnter(1)
    \/ ApiInitBody(1)
    \/ ApiIncr(1)
    \/ ApiFinish(1)
    \/ \E p \in SrvProcs :
          \/ GateSrvReject(p)
          \/ GateSrvHitSingle(p)
          \/ GateSrvHitMulti(p)
          \/ SvWriteTmp(p)
          \/ SvRename(p)

SpecGate == InitGate /\ [][GateNext]_vars

\* every handler goroutine keeps running: the Go scheduler starves none
SpecApiLive ==
    /\ InitLive
    /\ [][ApiLiveNext]_vars
    /\ \A p \in ApiProcs : WF_vars(ApiStep(p))

\* api.Handler with its badge endpoints, requests sent one after another
InitBadge ==
    /\ BadgeInit /\ MCInit /\ NcOff /\ SvOff
    /\ envFailFast = FALSE /\ envSilent = FALSE

SpecBadge == InitBadge /\ [][BadgeNext]_vars

\* the standalone server under concurrent requests
InitSrv == SvInit /\ MCInit /\ ApiOff /\ NcOff /\ EnvOff

SpecSrv == InitSrv /\ [][SvNext]_vars

(* ---------------------------------------------------------------------- *)
(* Claims                                                                  *)
(* ---------------------------------------------------------------------- *)

\* C1: once every Inc(id) call that was started has returned, the counter of
\* id holds exactly the number of Inc(id) calls made, and a Get(id) that runs
\* entirely after those N calls returned (none started meanwhile) returns N;
\* this holds whatever Inc calls on other ids are interleaved.
C1_NoLostUpdates ==
    /\ \A id \in MCIds :
           MCInFlightInc(id) = {} => MCGetValue(id) = mcIncStarted[id]
    /\ (/\ mcOut.op = "get"
        /\ mcOut.snapStarted = mcOut.snapDone
        /\ mcIncStarted[mcOut.id] = mcOut.snapStarted)
       => mcOut.ret = mcOut.snapDone

\* two overlapping Inc("a") calls and an Inc on another id have all returned
\* and a Get("a") called afterwards has read 2
C1_Witness ==
    /\ mcOut.op = "get" /\ mcOut.id = "a" /\ mcOut.ret = 2
    /\ mcOut.snapDone = 2 /\ mcIncStarted["a"] = 2
    /\ mcConc["a"]
    /\ mcIncDone["default"] = 1

\* C2: at most one counter cell is ever allocated for an identifier, every
\* pointer an Inc call holds is the one stored in the map, and when two Inc
\* calls both saw the identifier missing and have returned (no other Inc on
\* it), the counter reads 2.
C2_SingleCounterPerId ==
    \A id \in MCIds :
        /\ mcCreated[id] <= 1
        /\ \A p \in MCInFlightInc(id) :
               mcPc[p] \in {"add", "unlock"} => mcPtr[p] = mcM[id] /\ mcPtr[p] # 0
        /\ (mcSawAbsent[id] >= 2 /\ MCInFlightInc(id) = {} /\ mcIncStarted[id] = 2)
           => MCGetValue(id) = 2

\* two first Inc calls of "a" both found no entry, both returned
C2_Witness ==
    /\ mcSawAbsent["a"] = 2
    /\ mcIncDone["a"] = 2
    /\ mcCreated["a"] = 1
    /\ MCGetValue("a") = 2

\* a response written by the fallback-and-respond part of /hit or /count
ApiAnswered == apOut.src # "none"

\* C3 (as claimed): a response whose Redis call failed (error, timeout) names
\* the fallback as its source, and a response names "redis" as its source only
\* when its value came from Redis.
C3_SourceTellsOrigin ==
    ApiAnswered =>
        /\ apOut.call \in {"err", "lost"} => apOut.src = "memory"
        /\ apOut.src = "redis" => apOut.origin = "redis"

C5_UnseenIdReadsZero ==
    (apOut.path = "/count" /\ ApiAnswered /\ apOut.never) => apOut.val = 0

\* C6: on a cold fallback-only handler (no Redis client, no seed), the k-th
\* of a run of sequential /hit requests for "home" returns k with source
\* "memory", and a /count for "home" sent after k of them returns k.
C6_ColdSequentialHome ==
    (apOut.role # "none" /\ ~apClient /\ envSeed = 0) =>
        /\ apOut.status = 200
        /\ apOut.val = apOut.k
        /\ apOut.src = "memory"
        /\ apOut.role = "hit" => apOut.k = apScen

\* three sequential increments of "home" returned 1, 2, 3 and the read
\* that follows returns 3
C6_Witness ==
    /\ envRedis = "unset" /\ envSeed = 0
    /\ apOut.role = "read"
    /\ apOut.k = 3
    /\ apOut.val = 3
    /\ apGlobal = 3

\* C7 (as claimed): a /count whose GET found no key (redis.Nil) on a
\* reachable Redis returns 0.
C7_AbsentKeyReadsZero ==
    (apOut.path = "/count" /\ apOut.call = "nil") => apOut.val = 0

\* C8 (as claimed): an operation on an identifier that does not overlap the
\* previous operation on it returns at least the value that one returned.
C8_MonotoneAcrossBackends ==
    (ApiAnswered /\ apOut.clean /\ apOut.prevVal >= 0) =>
        apOut.val >= apOut.prevVal

\* C8 (amended): the same, when both values came from the same backend (both
\* from Redis replies or both from globalCount).
C8_MonotonePerBackend ==
    (ApiAnswered /\ apOut.clean /\ apOut.prevVal >= 0
        /\ apOut.prevOrigin = apOut.origin) =>
        apOut.val >= apOut.prevVal

\* a fallback answer follows a fallback answer on a handler whose Redis is
\* live and has counted the same id in between or before
C8_Witness ==
    /\ ApiAnswered /\ apOut.clean
    /\ apClient
    /\ apOut.origin = "memory" /\ apOut.prevOrigin = "memory"
    /\ apOut.val > apOut.prevVal
    /\ apOut.prevVal >= 1
    /\ apStore[apOut.id] # apStore0[apOut.id]

\* C9: the initializer body of getRedis is entered at most once and by one
\* goroutine; a caller gets past getRedis only when the initializer has
\* finished (the others wait in redisOnce.Do meanwhile).
C9_InitOnce ==
    /\ apInitRuns <= 1
    /\ Cardinality({p \in ApiProcs : apPc[p] = "init"}) <= 1
    /\ apOnce = "running" <=> (\E p \in ApiProcs : apPc[p] = "init")
    /\ \A p \in ApiProcs : apPc[p] \in {"call", "fallback"} => apOnce = "done"

\* two first callers: one runs the initializer, the other waits in getRedis
C9_Witness ==
    \E p, q \in ApiProcs :
        /\ apPc[p] = "init"
        /\ apPc[q] = "getredis"
        /\ apInitRuns = 1

\* C10: the initializer is run once and never again, whatever its result;
\* after a failed initialisation (no client) no request makes a Redis call,
\* every answer comes from the fallback and the store is never touched;
\* after a successful one every accepted /hit and /count makes its Redis
\* call, also after earlier calls failed.
C10_InitCachedCallsRetried ==
    /\ apOnce = "done" => apInitRuns = 1
    /\ apOnce = "fresh" => apInitRuns = 0
    /\ ApiAnswered => (apOut.call # "none" <=> apClient)
    /\ (ApiAnswered /\ ~apClient) =>
           apOut.origin = "memory" /\ apOut.src = "memory"
    /\ ~apClient => apStore = apStore0
    /\ \A p \in ApiProcs : apPc[p] = "call" => apClient

\* on a live client a Redis call succeeds after an earlier INCR failed and
\* was answered from the fallback
C10_Witness ==
    /\ apClient
    /\ apOut.call = "ok"
    /\ apGlobal > envSeed
    /\ apReqs >= 3

\* the allow-list: a '#' followed by exactly 3 or exactly 6 hexadecimal
\* digits, or one of the named colors
IsHexDigit(ch) ==
    ch \in {"0", "1", "2", "3", "4", "5", "6", "7", "8", "9",
            "a", "b", "c", "d", "e", "f", "A", "B", "C", "D", "E", "F"}

IsHexColor(s) ==
    /\ Len(s) \in {4, 7}
    /\ s[1] = "#"
    /\ \A i \in 2..Len(s) : IsHexDigit(s[i])

IsAllowListed(s) == s \in NamedColors \/ IsHexColor(s)

\* C12: normalizeColor returns a named color, a '#' with exactly 3 or 6
\* hexadecimal digits, or the supplied default, and an argument that is not
\* on the allow-list (letter case and surrounding white space aside) gives
\* the default.
C12_NormalizeColorAllowList ==
    ncDone =>
        /\ IsAllowListed(ncRes) \/ ncRes = ncFallback
        /\ ~IsAllowListed(ToLower(TrimSpace(ncC))) => ncRes = ncFallback

BadgeOnly == {"/badge", "/badge.json"}

\* the step just taken answered a badge endpoint with a body of the kind
BadgeAnswered(kind) ==
    /\ apOut.path \in ApiBadgePaths
    /\ apOut.status = 200
    /\ apOut.badge.out.kind = kind

\* C11: no step of a /badge or /badge.json request, from its arrival to its
\* response, changes the durable value or the fallback value of any
\* identifier.
C11_BadgeLeavesCounters ==
    [][(\/ \E p \in ApiProcs : apPath[p] \in BadgeOnly \/ apPath'[p] \in BadgeOnly
        \/ apOut'.path \in BadgeOnly)
          => (apStore' = apStore /\ apGlobal' = apGlobal)]_vars

\* a badge was rendered from the Redis value of "home" after a /hit had
\* incremented it
C11_Witness ==
    /\ BadgeAnswered("classic")
    /\ apOut.call = "ok"
    /\ apOut.val = BadgePreVal + 1
    /\ apStore["home"] = BadgePreVal + 1
    /\ apStore0["home"] = BadgePreVal

\* C13: every color argument written into the markup of a /badge response,
\* classic or terminal, is on the allow-list or is a documented default.
C13_ColorsAllowListed ==
    (BadgeAnswered("classic") \/ BadgeAnswered("terminal")) =>
        \A i \in DOMAIN apOut.badge.out.fills :
            \/ IsAllowListed(apOut.badge.out.fills[i])
            \/ apOut.badge.out.fills[i] \in ColorDefaults \cup {Blue}

C16_ClassicWidths ==
    BadgeAnswered("classic") =>
        LET o == apOut.badge.out
            label == IF apOut.badge.q.label = <<>> THEN Views
                     ELSE apOut.badge.q.label
            digits == FormatUint(apOut.val)
        IN  /\ o.labelText = label /\ o.valueText = digits
            /\ o.valueX = 6 * ByteLen(label) + 10
            /\ o.valueWidth = 6 * Len(digits) + 10
            /\ o.width = o.valueX + o.valueWidth
            /\ o.backWidth = o.width

\* a classic badge for a label of 5 bytes and the value 10: 40 + 22 = 62
C16_Witness ==
    /\ BadgeAnswered("classic")
    /\ apOut.badge.q.label = <<"c", "a", "f", EAcute>>
    /\ apOut.val = 10
    /\ apOut.badge.out.valueX = 40
    /\ apOut.badge.out.valueWidth = 22
    /\ apOut.badge.out.width = 62

\* C17 as stated: in the terminal badge the value text is at
\* x = 8*(characters of the label)+14, the value segment is
\* 8*len(decimal value)+14 wide and the total width is the sum.
C17_TerminalWidthsOfLabel ==
    BadgeAnswered("terminal") =>
        LET o == apOut.badge.out
            label == IF apOut.badge.q.label = <<>> THEN Views
                     ELSE apOut.badge.q.label
            digits == FormatUint(apOut.val)
        IN  /\ o.valueTextX = 8 * Len(label) + 14
            /\ o.width = o.valueTextX + 8 * Len(digits) + 14

\* C17 amended: the label segment is sized for the text drawn in it, the
\* label followed by ':', in bytes: the value text is at
\* x = 8*(len(label)+1)+14, the value segment is 8*len(decimal value)+14 wide
\* and the total width is the sum.
C17_TerminalWidthsWithColon ==
    BadgeAnswered("terminal") =>
        LET o == apOut.badge.out
            label == IF apOut.badge.q.label = <<>> THEN Views
                     ELSE apOut.badge.q.label
            digits == FormatUint(apOut.val)
        IN  /\ o.labelText = label \o <<":">> /\ o.valueText = digits
            /\ o.valueTextX = 8 * (ByteLen(label) + 1) + 14
            /\ o.width = o.valueTextX + 8 * Len(digits) + 14
            /\ o.backWidth = o.width

\* a terminal badge for "views" and 42: 62 + 30 = 92
C17_Witness ==
    /\ BadgeAnswered("terminal")
    /\ apOut.badge.q.label = Views
    /\ apOut.val = 42
    /\ apOut.badge.out.valueTextX = 62
    /\ apOut.badge.out.width = 92

\* C18: the key of every Redis call, INCR or GET, is the configured prefix
\* (REDIS_PREFIX, "hits:" when unset) followed by the identifier of the
\* request.
C18_KeyUsesConfiguredPrefix ==
    apOut.key # <<>> =>
        \E p \in ApiProcs :
            /\ apPc[p] = "fallback"
            /\ apOut.key = <<IF envPrefix = "" THEN "hits:" ELSE envPrefix,
                             apId[p]>>

\* C19: with SECRET_TOKEN set, /count, /count.txt and /badge are never
\* answered 401, and a /hit (GET or POST) without the correct token is
\* answered 401.
C19_OnlyHitNeedsToken ==
    svSecret # "" =>
        /\ svOut.path \in {"/count", "/count.txt", "/badge"}
              => svOut.status # 401
        /\ (/\ svOut.path = "/hit" /\ svOut.method \in {"GET", "POST"}
            /\ svOut.token # svSecret) => svOut.status = 401

\* C20: singleCounter always holds the loaded count plus the increments
\* performed, and a /hit whose write or rename of the persistence file
\* failed is answered 200 with the value its own increment produced.
C20_PersistFailureSwallowed ==
    /\ svSingle = svBase + svIncs
    /\ \A p \in SrvProcs : svPc[p] # "idle" => svVal[p] = svBase + svNth[p]
    /\ svOut.persist = "failed" =>
          /\ svOut.status = 200
          /\ svOut.val = svBase + svOut.nth
          /\ svOut.nth \in 1..svIncs

\* the second of two /hit requests was answered after its rename failed
\* because the first had already moved the temporary file
C20_Witness ==
    /\ svOut.persist = "failed"
    /\ svOut.status = 200
    /\ svOut.nth = 2
    /\ svOut.val = SvLoadedVal + 2
    /\ svSingle = SvLoadedVal + 2
    /\ svFile = SvLoadedVal + 2
    /\ svTmp = FileAbsent

\* C21 (as claimed): the first request of a deployment, when it is a /hit,
\* has changed exactly one of the Redis store and globalCount by the time it
\* is answered, and the value it returns is the value of the one it changed.
C21_ExactlyOneBackend ==
    (apReqs = 1 /\ ApiAnswered /\ apOut.path = "/hit") =>
        LET durable == apStore # apStore0
            fallback == apGlobal # envSeed
        IN  /\ durable # fallback
            /\ durable => apOut.val = apStore[apOut.id]
            /\ fallback => apOut.val = apGlobal

\* C21 (amended): the Redis call of a /hit adds one to the key of its id or
\* leaves the store alone, and touches nothing else; the handler then adds one
\* to globalCount exactly when the call returned no value, which includes the
\* call whose increment was applied but whose reply was lost, and answers with
\* the value the call returned or else with the new globalCount; no other step
\* changes the store or globalCount.
C21_OneBackendPerReply ==
    [][/\ \A p \in ApiProcs :
            LET id == apId[p]
                next == IF apStore[id] = RNil THEN 1 ELSE apStore[id] + 1
            IN  /\ (apPc[p] = "call" /\ apPc'[p] = "fallback"
                        /\ apPath[p] = "/hit") =>
                    /\ apGlobal' = apGlobal
                    /\ \/ apStore' = apStore /\ apVal'[p] = 0
                       \/ /\ apStore' = [apStore EXCEPT ![id] = next]
                          /\ apVal'[p] \in {0, next}
                /\ (apPc[p] = "fallback" /\ apPc'[p] = "idle"
                        /\ apPath[p] = "/hit") =>
                    /\ apStore' = apStore
                    /\ IF apVal[p] # 0
                       THEN /\ apGlobal' = apGlobal
                            /\ apOut'.val = apVal[p]
                            /\ apOut'.origin = "redis"
                       ELSE /\ apGlobal' = apGlobal + 1
                            /\ apOut'.val = apGlobal'
                            /\ apOut'.origin = "memory"
       /\ apStore' # apStore =>
            \E p \in ApiProcs : apPc[p] = "call" /\ apPath[p] = "/hit"
       /\ apGlobal' # apGlobal =>
            \E p \in ApiProcs : apPc[p] = "fallback" /\ apPath[p] = "/hit"
      ]_vars

\* a /hit whose increment reached Redis but whose reply was lost has been
\* answered from globalCount: both counters have moved
C21_Witness ==
    /\ ApiAnswered
    /\ apOut.path = "/hit"
    /\ apOut.call = "lost"
    /\ apOut.origin = "memory"
    /\ apStore[apOut.id] # apStore0[apOut.id]
    /\ apGlobal = envSeed + 1

\* C22: the value a Get(id) returns is at least the number of Inc(id) calls
\* that had returned when the Get was called and at most the number of Inc(id)
\* calls that had been called when the Get returned.
C22_ReadWithinWindow ==
    mcOut.op = "get" =>
        /\ mcOut.snapDone <= mcOut.ret
        /\ mcOut.ret <= mcIncStarted[mcOut.id]

\* a Get that ran while increments came and went: none had returned when it
\* was called, it returned 1, and a second Inc was under way when it returned
C22_Witness ==
    /\ mcOut.op = "get"
    /\ mcOut.snapDone = 0
    /\ mcOut.ret = 1
    /\ mcIncStarted[mcOut.id] = 2

\* C23: a request that is being handled is eventually answered, whatever the
\* Redis server does: a Redis call made to a server that has stopped
\* answering ends with no value, and a request whose Redis call failed is
\* answered 200 from globalCount.
C23_EveryRequestAnswered ==
    /\ \A p \in ApiProcs : ApiInFlight(p) ~> ~ApiInFlight(p)
    /\ [][\A p \in ApiProcs :
            /\ (envSilent /\ apPc[p] = "call" /\ apPc'[p] = "fallback") =>
                    apVal'[p] = 0 /\ apCall'[p] \in {"err", "lost"}
            /\ (apPc[p] = "fallback" /\ apPc'[p] = "idle"
                    /\ apCall[p] \in {"err", "lost"}) =>
                    /\ apOut'.status = 200
                    /\ apOut'.origin = "memory"
                    /\ apOut'.val = apGlobal'
         ]_vars

\* the Redis server has stopped answering and a request whose Redis call
\* was abandoned has been answered from globalCount
C23_Witness ==
    /\ envSilent
    /\ ApiAnswered
    /\ apOut.call \in {"err", "lost"}
    /\ apOut.origin = "memory"
    /\ apOut.status = 200

\* C24 (as claimed): with FAIL_FAST_REDIS=1 and a Redis initialisation that
\* has failed (REDIS_URL set, no client obtained), no request is served.
C24_FailFastAborts ==
    (envFailFast /\ envRedis # "unset" /\ apOnce = "done" /\ ~apClient) =>
        ~(ApiAnswered /\ apOut.status = 200)

\* C25 (as claimed): without Redis, a /count of an id returns the value the
\* previous request on that id returned: the increments of other ids made in
\* between do not change it.
C25_OtherIdsUntouched ==
    (/\ envRedis = "unset"
     /\ ApiAnswered
     /\ apOut.path = "/count"
     /\ apOut.prevOrigin = "memory") =>
        apOut.val = apOut.prevVal

\* C26: a /count whose key holds a value that does not parse is answered as a
\* /count whose key is absent is: status 200 and the value of globalCount.
C26_BadValueLikeAbsent ==
    (/\ ApiAnswered
     /\ apOut.path = "/count"
     /\ apOut.call # "none"
     /\ apStore[apOut.id] \in {RBad, RNil}) =>
        /\ apOut.status = 200
        /\ apOut.val = apGlobal
        /\ apOut.origin = "memory"

\* a /count has read a value that does not parse and was answered with the
\* seeded globalCount
C26_Witness ==
    /\ ApiAnswered
    /\ apOut.path = "/count"
    /\ apOut.call = "badval"
    /\ apStore[apOut.id] = RBad
    /\ apOut.status = 200
    /\ apOut.val = SeedVal
    /\ envSeed = SeedVal

\* C27 (as claimed): in the standalone server a read that omits the id or
\* names "default" returns the count the server started with plus every
\* increment made so far under either of the two names.
C27_EmptyIdIsSentinel ==
    (/\ svOut.path \in {"/count", "/count.txt"}
     /\ svOut.status = 200
     /\ svOut.id \in {"", "default"}) =>
        svOut.val = svBase + svIncs + mcIncDone["default"]

\* C28 (as claimed): in the standalone server started without a persisted
\* count, the first /hit on the single counter returns the seed plus one.
C28_SeedStartsFallback ==
    (/\ svOut.path = "/hit"
     /\ svOut.status = 200
     /\ svOut.id = ""
     /\ svOut.nth = 1
     /\ svBase = 0) =>
        svOut.val = svSeed + 1

\* C29: the Inc(id) call that is the k-th to return for its id returns k, so
\* the N calls that have returned returned the values 1..N, each once.
C29_IncReturnsDistinct ==
    mcOut.op = "inc" => mcOut.ret = mcIncDone[mcOut.id]

\* two Inc calls on one id ran at the same time and the second to return
\* returned 2
C29_Witness ==
    /\ mcOut.op = "inc"
    /\ mcOut.ret = 2
    /\ mcConc[mcOut.id]
    /\ mcIncDone[mcOut.id] = 2

\* C30 (as claimed): with PERSIST_FILE set, no failed os.WriteFile or
\* os.Rename so far and no /hit in flight, the file holds the value of the
\* single counter once a /hit has been served.
C30_FileHoldsCounter ==
    (/\ svPersist
     /\ ~svFault
     /\ svIncs > 0
     /\ \A p \in SrvProcs : svPc[p] = "idle") =>
        svFile = svSingle

\* C31 (as claimed): the count the standalone server draws in a /badge of an
\* id is the count its /count returns for that id in the same state.
C31_BadgeShowsCount ==
    (svOut.path = "/badge" /\ svOut.status = 200) =>
        svOut.val = MCGetValue(svOut.id)

\* a /hit that is to be turned away: the token is missing or wrong while a
\* secret is set, or the method is neither GET nor POST
HitToReject(secret, method, token) ==
    \/ secret # "" /\ token # secret
    \/ method \notin {"GET", "POST"}

\* C32: a /hit that arrives with a missing or wrong token while a secret is
\* set, or with a method other than GET and POST, is answered 401 or 405, a
\* /hit is answered 401 or 405 only then, and the step that answers so
\* changes neither the Redis store nor globalCount nor singleCounter nor the
\* MultiCounter nor the persistence file and its ".tmp" sibling.
C32_RejectedHitChangesNothing ==
    [][/\ (apReqs' = apReqs + 1 /\ apOut'.path = "/hit"
               /\ apOut'.status \in {401, 405}) =>
            /\ HitToReject(envSecret, apOut'.method, apOut'.token)
            /\ UNCHANGED <<apStore, apGlobal, svSingle, svFile, svTmp, mcM,
                           mcHeap>>
       /\ (svReqs' = svReqs + 1 /\ svOut'.path = "/hit"
               /\ svOut'.method # "") =>
            /\ svOut'.status \in {401, 405}
                   <=> HitToReject(svSecret, svOut'.method, svOut'.token)
            /\ svOut'.status \in {401, 405} =>
                   UNCHANGED <<apStore, apGlobal, svSingle, svFile, svTmp,
                               mcM, mcHeap>>
      ]_vars

\* after a /hit was served and persisted, a /hit with a missing token has
\* been answered 401 by the server; the counter and the file hold the count
C32_Witness ==
    /\ svOut.path = "/hit"
    /\ svOut.status = 401
    /\ svSecret # ""
    /\ svOut.token # svSecret
    /\ svIncs = 1
    /\ svPersist
    /\ svFile = svSingle

====
